---- MODULE Spec2Model ----
(***************************************************************************)
(* Model of the chess-bot inference-and-decision pipeline (src/main.py):   *)
(* board-state differencing, position serialisation, move selection, the   *)
(* polling loop with its fault handlers, the shared configuration and the  *)
(* shutdown path.                                                          *)
(*                                                                         *)
(* A Python dict is modelled as a sequence of <<key, value>> pairs with    *)
(* distinct keys, in insertion order (the order dict iteration follows).   *)
(* A position key is a Python string; it is modelled as the tuple of its   *)
(* characters, e.g. "52" is <<"5", "2">> and "e2" is <<"e", "2">>.         *)
(* None is modelled as the string "None".                                  *)
(***************************************************************************)
EXTENDS Integers, Sequences, FiniteSets, TLC

VARIABLES
    call,   \* the pure function under study and its arguments
    ret,    \* its result, "pending" until the function has been applied
    \* the globals of src/main.py
    previous_board_state, current_turn, evaluation_score, args, legit_mode,
    current_side, engine, crash_count,
    \* the locals of main()
    consecutive_errors, timeout_count, last_error_type, last_error_time,
    \* the environment: time.time() and the arrows drawn on the page
    now, arrows,
    \* the monitor thread's position and what the last cycle did
    pc, cycle,
    \* the teardown calls made so far, in order
    teardown,
    \* the GUI thread inside update_settings, and the configuration reads
    \* the monitor thread has made in the cycle it is in
    gui, seen

None == "None"

pureVars == <<call, ret>>

globalVars == <<previous_board_state, current_turn, evaluation_score,
                current_side, engine, crash_count>>
configVars == <<args, legit_mode>>
mainVars == <<consecutive_errors, timeout_count, last_error_type,
              last_error_time>>
envVars == <<now, arrows>>
loopVars == <<globalVars, configVars, mainVars, envVars, pc, cycle, teardown>>

stepVars == <<gui, seen>>

vars == <<pureVars, loopVars, stepVars>>

(***************************************************************************)
(* The values the module-level globals hold before main() runs, and the    *)
(* rest state of the variables a specification does not use.               *)
(***************************************************************************)
NoCycle ==
    [ran |-> FALSE, snapshot_empty |-> FALSE, moves_len |-> 0,
     fault |-> "none", moved |-> 0, analysed |-> FALSE, fen_ok |-> FALSE,
     queried |-> FALSE, answered |-> FALSE, recovery |-> "none",
     unknown_streak |-> 0, hard_in_streak |-> 0, kings_bad |-> FALSE,
     baseline_set |-> FALSE, had_crashes |-> FALSE,
     had_baseline |-> FALSE, enabled |-> FALSE, our_turn |-> FALSE]

PureIdle == call = [fn |-> "none"] /\ ret = "pending"

GuiIdle == [at |-> 0, form |-> None, before |-> None]
NotReading == [at |-> 0, start |-> None, read |-> {}, side |-> None,
               enabled |-> None, legit_enabled |-> None]
StepIdle == gui = GuiIdle /\ seen = NotReading

LoopIdle ==
    /\ previous_board_state = << >>
    /\ current_turn = "white"
    /\ evaluation_score = 0
    /\ args = [enabled |-> TRUE, side |-> "white", legit_mode |-> TRUE,
               blunder_chance |-> 15, suboptimal_chance |-> 35]
    /\ legit_mode = [enabled |-> FALSE, blunder_chance |-> 15,
                     suboptimal_chance |-> 35]
    /\ current_side = "white"
    /\ engine = None
    /\ crash_count = 0
    /\ consecutive_errors = 0
    /\ timeout_count = 0
    /\ last_error_type = None
    /\ last_error_time = 0
    /\ now = 0
    /\ arrows = FALSE
    /\ pc = "idle"
    /\ cycle = NoCycle
    /\ teardown = << >>
    /\ StepIdle


(***************************************************************************)
(* Characters of position keys                                             *)
(***************************************************************************)
FileLetters == <<"a", "b", "c", "d", "e", "f", "g", "h">>
DigitChars == <<"0", "1", "2", "3", "4", "5", "6", "7", "8", "9">>

IsDigitChar(c) == \E i \in DOMAIN DigitChars : DigitChars[i] = c

\* int(c) for a digit character
DigitVal(c) == (CHOOSE i \in DOMAIN DigitChars : DigitChars[i] = c) - 1

\* str(n) for 0 <= n <= 9
DigitStr(n) == DigitChars[n + 1]

\* c.lower(): the model's only upper-case letters are "E" and "Z"
Lower(c) == IF c = "E" THEN "e" ELSE IF c = "Z" THEN "z" ELSE c

\* c.isalpha(): the letters of the model are a..h, "i", "z", "E" and "Z"
IsAlphaChar(c) ==
    \/ \E i \in DOMAIN FileLetters : FileLetters[i] = c
    \/ c \in {"i", "z", "E", "Z"}

\* ord(c) - ord('a') for a lower-case letter of the model
LetterOffset(c) ==
    IF \E i \in DOMAIN FileLetters : FileLetters[i] = c
    THEN (CHOOSE i \in DOMAIN FileLetters : FileLetters[i] = c) - 1
    ELSE IF c = "i" THEN 8 ELSE 25

(***************************************************************************)
(* Dict helpers                                                            *)
(***************************************************************************)
DictKeys(d) == {d[i][1] : i \in DOMAIN d}

\* mutant: the lookup never finds the key
DictGetAbsent(d, k) == None

\* d.get(k): the value stored under k, None when k is not a key
DictGet(d, k) ==
    IF k \in DictKeys(d)
    THEN (CHOOSE e \in {d[i] : i \in DOMAIN d} : e[1] = k)[2]
    ELSE None

\* mutant: the matched entry stays in the list
RemoveAtKept(s, i) == s

\* the sequence s without its i-th element (dict.pop of the i-th key)
RemoveAt(s, i) == SubSeq(s, 1, i - 1) \o SubSeq(s, i + 1, Len(s))

\* the sequences of length n over S, without repetition of a key
RECURSIVE DictsOfLen(_, _, _)
DictsOfLen(keys, values, n) ==
    IF n = 0 THEN {<< >>}
    ELSE {Append(d, <<k, v>>) :
            d \in DictsOfLen(keys, values, n - 1), k \in keys, v \in values}

IsDict(d) == \A i, j \in DOMAIN d : d[i][1] = d[j][1] => i = j

(***************************************************************************)
(* find_moved_pieces (src/main.py:483-503)                                 *)
(***************************************************************************)
\* pieces that are in new positions: entries of new_state whose key is not
\* in old_state or holds another piece there
Appeared(old_state, new_state) ==
    SelectSeq(new_state,
              LAMBDA e : e[1] \notin DictKeys(old_state)
                         \/ DictGet(old_state, e[1]) # e[2])

\* mutant: only a square that now holds another piece counts as vacated
DisappearedOverwrittenOnly(old_state, new_state) ==
    SelectSeq(old_state,
              LAMBDA e : e[1] \in DictKeys(new_state)
                         /\ DictGet(new_state, e[1]) # e[2])

\* pieces that left their old positions
Disappeared(old_state, new_state) ==
    SelectSeq(old_state,
              LAMBDA e : e[1] \notin DictKeys(new_state)
                         \/ DictGet(new_state, e[1]) # e[2])

\* index of the first entry of appeared that holds `piece`, 0 when none does
FirstMatch(appeared, piece) ==
    IF \E i \in DOMAIN appeared : appeared[i][2] = piece
    THEN CHOOSE i \in DOMAIN appeared :
            /\ appeared[i][2] = piece
            /\ \A j \in 1..(i - 1) : appeared[j][2] # piece
    ELSE 0

\* the outer loop over disappeared, with the inner loop's pop-and-break
RECURSIVE MatchLoop(_, _, _)
MatchLoop(disappeared, appeared, moves) ==
    IF disappeared = << >> THEN moves
    ELSE LET old == Head(disappeared)
             i   == FirstMatch(appeared, old[2])
         IN  IF i = 0
             THEN MatchLoop(Tail(disappeared), appeared, moves)
             ELSE MatchLoop(Tail(disappeared), RemoveAt(appeared, i),
                            Append(moves, <<old[1], appeared[i][1], old[2]>>))

find_moved_pieces(old_state, new_state) ==
    MatchLoop(Disappeared(old_state, new_state),
              Appeared(old_state, new_state), << >>)

(***************************************************************************)
(* Specification SpecDiff: find_moved_pieces applied to every pair of      *)
(* bounded snapshots.                                                      *)
(***************************************************************************)
MaxPieces == 2

DiffKeys == {<<"5", "2">>, <<"5", "4">>, <<"e", "2">>, <<"4", "4">>}
DiffPieces == {"wp", "bp"}

DiffSnapshots ==
    UNION {DictsOfLen(DiffKeys, DiffPieces, n) : n \in 0..MaxPieces}

DiffInit ==
    /\ call \in {[fn |-> "find_moved_pieces", old_state |-> o, new_state |-> n] :
                    o \in {d \in DiffSnapshots : IsDict(d)},
                    n \in {d \in DiffSnapshots : IsDict(d)}}
    /\ ret = "pending"
    /\ LoopIdle

DiffApply ==
    /\ call.fn = "find_moved_pieces"
    /\ ret = "pending"
    /\ ret' = find_moved_pieces(call.old_state, call.new_state)
    /\ UNCHANGED <<call, loopVars, stepVars>>

DiffNext == DiffApply

SpecDiff == DiffInit /\ [][DiffNext]_vars

(***************************************************************************)
(* Claims about find_moved_pieces                                          *)
(***************************************************************************)
\* the board square a well-formed key denotes, as <<file, rank>>
SquareOf(k) ==
    IF IsAlphaChar(k[1])
    THEN <<LetterOffset(Lower(k[1])) + 1, DigitVal(k[2])>>
    ELSE <<DigitVal(k[1]), DigitVal(k[2])>>

SquaresOf(d) == {SquareOf(k) : k \in DictKeys(d)}

\* new_state is old_state with the piece of key s standing on key t instead,
\* t a square that was empty, and nothing else changed
SingleMove(old_state, new_state, s, t) ==
    /\ s \in DictKeys(old_state)
    /\ SquareOf(t) \notin SquaresOf(old_state)
    /\ DictKeys(new_state) = (DictKeys(old_state) \ {s}) \cup {t}
    /\ DictGet(new_state, t) = DictGet(old_state, s)
    /\ \A k \in DictKeys(old_state) \ {s} :
            DictGet(new_state, k) = DictGet(old_state, k)

DiffDone == call.fn = "find_moved_pieces" /\ ret # "pending"

\* C1: when two consecutive non-empty snapshots differ only in that one piece
\* left square s and the same piece code stands on the previously empty
\* square t, the diff returns exactly one move, <<s, t, piece>>.
C1_SingleMoveDiff ==
    DiffDone =>
        \A s, t \in DiffKeys :
            SingleMove(call.old_state, call.new_state, s, t) =>
                ret = << <<s, t, DictGet(call.old_state, s)>> >>

\* a single move was diffed on a board that holds other, unmoved pieces too
C1_Witness ==
    /\ DiffDone
    /\ Len(call.old_state) >= 2
    /\ \E s, t \in DiffKeys : SingleMove(call.old_state, call.new_state, s, t)

\* the <<key, value>> pairs of a dict, whatever their insertion order
DictItems(d) == {d[i] : i \in DOMAIN d}

\* C13: two identical consecutive snapshots yield no move, whatever squares,
\* pieces and key encodings the snapshot holds.
C13_IdenticalSnapshotsNoMove ==
    (DiffDone /\ DictItems(call.old_state) = DictItems(call.new_state))
        => ret = << >>

\* a snapshot of two pieces, one keyed by letter and one by digit, was diffed
\* against itself
C13_Witness ==
    /\ DiffDone
    /\ call.old_state = call.new_state
    /\ Len(call.old_state) = 2
    /\ \E i, j \in DOMAIN call.old_state :
            /\ IsAlphaChar(call.old_state[i][1][1])
            /\ IsDigitChar(call.old_state[j][1][1])
    /\ ret = << >>

(***************************************************************************)
(* Position conversions (src/main.py:301-335)                              *)
(***************************************************************************)
convert_algebraic_to_numeric(alg) ==
    IF Len(alg) # 2 THEN None
    ELSE IF ~IsAlphaChar(alg[1]) \/ ~IsDigitChar(alg[2]) THEN None
    ELSE LET col == LetterOffset(Lower(alg[1])) + 1
             row == DigitVal(alg[2])
         IN  IF col < 1 \/ col > 8 THEN None
             ELSE IF row < 1 \/ row > 8 THEN None
             ELSE <<DigitStr(col), DigitStr(row)>>

\* mutant: the two digits are read as rank and file
convert_numeric_to_algebraic_swapped(num) ==
    IF Len(num) # 2 THEN None
    ELSE IF ~IsDigitChar(num[1]) \/ ~IsDigitChar(num[2]) THEN None
    ELSE LET col == DigitVal(num[2])
             row == DigitVal(num[1])
         IN  IF col < 1 \/ col > 8 \/ row < 1 \/ row > 8 THEN None
             ELSE <<FileLetters[col], DigitStr(row)>>

convert_numeric_to_algebraic(num) ==
    IF Len(num) # 2 THEN None
    ELSE IF ~IsDigitChar(num[1]) \/ ~IsDigitChar(num[2]) THEN None
    ELSE LET col == DigitVal(num[1])
             row == DigitVal(num[2])
         IN  IF col < 1 \/ col > 8 \/ row < 1 \/ row > 8 THEN None
             ELSE <<FileLetters[col], DigitStr(row)>>

(***************************************************************************)
(* get_fen_from_board (src/main.py:505-575)                                *)
(***************************************************************************)
\* piece_map.get(piece, ''): the FEN letter of a piece code, '' when unknown
PieceLetter(piece) ==
    CASE piece = "wp" -> "P" [] piece = "wn" -> "N" [] piece = "wb" -> "B"
      [] piece = "wr" -> "R" [] piece = "wq" -> "Q" [] piece = "wk" -> "K"
      [] piece = "bp" -> "p" [] piece = "bn" -> "n" [] piece = "bb" -> "b"
      [] piece = "br" -> "r" [] piece = "bq" -> "q" [] piece = "bk" -> "k"
      [] OTHER -> ""

\* the number of values of board_state equal to `piece`
CountPiece(board_state, piece) ==
    Cardinality({i \in DOMAIN board_state : board_state[i][2] = piece})

\* mutant: a missing king is let through (at most one of each is required)
KingsValidAtMostOne(board_state) ==
    CountPiece(board_state, "wk") <= 1 /\ CountPiece(board_state, "bk") <= 1

\* king_count['w'] == 1 and king_count['b'] == 1
KingsValid(board_state) ==
    CountPiece(board_state, "wk") = 1 /\ CountPiece(board_state, "bk") = 1

\* mutant: only digit-file keys are placed; a letter-file key is skipped
CellOfDigitFileOnly(position) ==
    IF Len(position) # 2 THEN None
    ELSE IF ~IsDigitChar(position[1]) \/ ~IsDigitChar(position[2]) THEN None
    ELSE LET col == DigitVal(position[1]) - 1
             row == 8 - DigitVal(position[2])
         IN  IF 0 <= col /\ col < 8 /\ 0 <= row /\ row < 8
             THEN <<row, col>> ELSE None

\* the <<row, col>> grid cell a position key is written to, None when the
\* key is skipped (wrong length, int() raising ValueError, out of range)
CellOf(position) ==
    IF Len(position) # 2 THEN None
    ELSE IF ~IsDigitChar(position[2]) THEN None
    ELSE IF ~IsAlphaChar(position[1]) /\ ~IsDigitChar(position[1]) THEN None
    ELSE LET col == IF IsAlphaChar(position[1])
                    THEN LetterOffset(Lower(position[1]))
                    ELSE DigitVal(position[1]) - 1
             row == 8 - DigitVal(position[2])
         IN  IF 0 <= col /\ col < 8 /\ 0 <= row /\ row < 8
             THEN <<row, col>> ELSE None

EmptyBoard == [row \in 0..7 |-> [col \in 0..7 |-> ""]]

\* the loop of lines 535-551: later entries overwrite earlier ones
RECURSIVE Populate(_, _)
Populate(board, entries) ==
    IF entries = << >> THEN board
    ELSE LET cell == CellOf(Head(entries)[1])
         IN  IF cell = None
             THEN Populate(board, Tail(entries))
             ELSE Populate([board EXCEPT ![cell[1]][cell[2]] =
                                PieceLetter(Head(entries)[2])],
                           Tail(entries))

\* mutant: every empty cell is written as its own "1"
RECURSIVE FenRowUnitRuns(_, _, _)
FenRowUnitRuns(row, col, empty) ==
    IF col > 7 THEN << >>
    ELSE IF row[col] = ""
    THEN <<"1">> \o FenRowUnitRuns(row, col + 1, 0)
    ELSE <<row[col]>> \o FenRowUnitRuns(row, col + 1, 0)

\* the inner loop of lines 558-567 from column col on, `empty` being the run
\* of empty cells seen so far
RECURSIVE FenRow(_, _, _)
FenRow(row, col, empty) ==
    IF col > 7
    THEN IF empty > 0 THEN <<DigitStr(empty)>> ELSE << >>
    ELSE IF row[col] = ""
    THEN FenRow(row, col + 1, empty + 1)
    ELSE (IF empty > 0 THEN <<DigitStr(empty)>> ELSE << >>)
         \o <<row[col]>> \o FenRow(row, col + 1, 0)

\* '/'.join(fen_parts) for the rows r..7
RECURSIVE JoinRows(_, _)
JoinRows(board, r) ==
    IF r = 7 THEN FenRow(board[7], 0, 0)
    ELSE FenRow(board[r], 0, 0) \o <<"/">> \o JoinRows(board, r + 1)

\* the position string as its sequence of characters, None when rejected
get_fen_from_board(board_state, turn) ==
    IF board_state = << >> THEN None
    ELSE IF ~KingsValid(board_state) THEN None
    ELSE JoinRows(Populate(EmptyBoard, board_state), 0)
         \o <<" ", IF turn = "white" THEN "w" ELSE "b", " ",
              "K", "Q", "k", "q", " ", "-", " ", "0", " ", "1">>

(***************************************************************************)
(* select_legit_move (src/main.py:94-150)                                  *)
(*                                                                         *)
(* An evaluation is a Python float holding centipawns / 100; it is         *)
(* modelled by its integer number of centipawns.  random.random() and the  *)
(* two chances are modelled in hundredths (roll 15 is 0.15).               *)
(***************************************************************************)
\* the values score.white().score() takes in the model
EvalCp == {-100, 0, 20, 50, 70, 100}

\* The pairs <<x, y>> of model evaluations for which the double-precision
\* difference x/100 - y/100 misses a band whose bound x - y meets exactly:
\* 0.7 - 0.2 = 0.49999999999999994 < 0.5 (and its negation, for black).
FloatExcluded == {<<70, 20>>, <<-20, -70>>}

\* mutant: the deficit has no upper bound
DiffInBandNoCeiling(best_eval, eval_score, lo, hi) ==
    lo <= best_eval - eval_score

\* lo <= best_eval - eval_score <= hi as the doubles compare, lo and hi in
\* centipawns
DiffInBand(best_eval, eval_score, lo, hi) ==
    LET eval_diff == best_eval - eval_score
    IN  /\ lo <= eval_diff
        /\ eval_diff <= hi
        /\ ~(eval_diff \in {lo, hi} /\ <<best_eval, eval_score>> \in FloatExcluded)

\* [(move, -score) for move, score in moves_with_eval]
NegateScores(moves_with_eval) ==
    [i \in DOMAIN moves_with_eval |->
        <<moves_with_eval[i][1], 0 - moves_with_eval[i][2]>>]

\* mutant: the scores are taken as they are handed in, for either side
AdjustedAsGiven(moves_with_eval, side) == moves_with_eval

\* the perspective adjustment of lines 108-112
Adjusted(moves_with_eval, side) ==
    IF side = "black" THEN NegateScores(moves_with_eval) ELSE moves_with_eval

\* the candidates of moves_with_eval[1:] whose deficit lies in [lo, hi]
BandCandidates(moves_with_eval, lo, hi) ==
    SelectSeq(Tail(moves_with_eval),
              LAMBDA e : DiffInBand(moves_with_eval[1][2], e[2], lo, hi))

\* random.choice(candidates), `pick` standing for the random index
RandomChoice(candidates, pick) == candidates[(pick % Len(candidates)) + 1]

\* mutant: legit mode is never seen as disabled
LegitDisabledNever(legit) == FALSE

\* `not legit_mode.enabled`
LegitDisabled(legit) == ~legit.enabled

BlunderLo == 50
BlunderHi == 150
SuboptimalLo == 10
SuboptimalHi == 40

select_legit_move(moves_with_eval, legit, side, roll, pick) ==
    IF Len(moves_with_eval) < 2
    THEN IF moves_with_eval # << >> THEN moves_with_eval[1][1] ELSE None
    ELSE IF LegitDisabled(legit)
    THEN moves_with_eval[1][1]
    ELSE LET adj == Adjusted(moves_with_eval, side)
             blunder_candidates == BandCandidates(adj, BlunderLo, BlunderHi)
             suboptimal_candidates ==
                BandCandidates(adj, SuboptimalLo, SuboptimalHi)
         IN  IF roll < legit.blunder_chance
             THEN IF blunder_candidates # << >>
                  THEN RandomChoice(blunder_candidates, pick)[1]
                  ELSE adj[1][1]
             ELSE IF roll < legit.blunder_chance + legit.suboptimal_chance
             THEN IF suboptimal_candidates # << >>
                  THEN RandomChoice(suboptimal_candidates, pick)[1]
                  ELSE adj[1][1]
             ELSE adj[1][1]

(***************************************************************************)
(* Specification SpecSelect: select_legit_move applied to every bounded    *)
(* candidate list, configuration, side and random draw.                    *)
(***************************************************************************)
MaxCandidates == 3

\* the i-th candidate's move is named after its rank
MoveNames == <<"m1", "m2", "m3", "m4", "m5">>

CandidateLists ==
    UNION {{[i \in 1..n |-> <<MoveNames[i], f[i]>>] : f \in [1..n -> EvalCp]} :
            n \in 0..MaxCandidates}

LegitConfigs ==
    [enabled : BOOLEAN, blunder_chance : {15, 100}, suboptimal_chance : {0, 35}]

Rolls == {0, 15, 50, 99}
Sides == {"white", "black"}

SelectInit ==
    /\ call \in [fn : {"select_legit_move"}, moves_with_eval : CandidateLists,
                 legit_mode : LegitConfigs, current_side : Sides,
                 roll : Rolls, pick : 0..1]
    /\ ret = "pending"
    /\ LoopIdle

SelectApply ==
    /\ call.fn = "select_legit_move"
    /\ ret = "pending"
    /\ ret' = select_legit_move(call.moves_with_eval, call.legit_mode,
                                call.current_side, call.roll, call.pick)
    /\ UNCHANGED <<call, loopVars, stepVars>>

SelectNext == SelectApply

SpecSelect == SelectInit /\ [][SelectNext]_vars

(***************************************************************************)
(* Claims about select_legit_move                                          *)
(***************************************************************************)
SelectDone == call.fn = "select_legit_move" /\ ret # "pending"

\* the list is sorted best first: no candidate is better than one before it
BestFirst(moves_with_eval) ==
    \A i, j \in DOMAIN moves_with_eval :
        i < j => moves_with_eval[i][2] >= moves_with_eval[j][2]

\* the moves of rank > 0 whose exact deficit from the best lies in [lo, hi]
MovesInBand(moves_with_eval, lo, hi) ==
    {moves_with_eval[i][1] : i \in
        {j \in DOMAIN moves_with_eval :
            /\ j > 1
            /\ lo <= moves_with_eval[1][2] - moves_with_eval[j][2]
            /\ moves_with_eval[1][2] - moves_with_eval[j][2] <= hi}}

\* C7: with legit mode enabled, blunderChance = 1.0 and suboptimalChance = 0,
\* for every best-first candidate list, draw and side, select returns a
\* candidate of the [0.5, 1.5] band when one exists and rank 0 otherwise.
C7_BlunderSaturation ==
    (/\ SelectDone
     /\ call.legit_mode.enabled
     /\ call.legit_mode.blunder_chance = 100
     /\ call.legit_mode.suboptimal_chance = 0
     /\ call.moves_with_eval # << >>
     /\ BestFirst(call.moves_with_eval))
    => LET band == MovesInBand(call.moves_with_eval, BlunderLo, BlunderHi)
       IN  IF band # {} THEN ret \in band ELSE ret = call.moves_with_eval[1][1]

\* C8: with legit mode disabled, select returns the first candidate of every
\* non-empty list, whatever the draw and the two chances.
C8_LegitOffReturnsBest ==
    (SelectDone /\ ~call.legit_mode.enabled /\ call.moves_with_eval # << >>)
    => ret = call.moves_with_eval[1][1]

\* legit mode is off on a call that would have blundered with it on: white,
\* a draw below the blunder chance and a candidate in the blunder band
C8_Witness ==
    /\ SelectDone
    /\ ~call.legit_mode.enabled
    /\ call.current_side = "white"
    /\ call.roll < call.legit_mode.blunder_chance
    /\ MovesInBand(call.moves_with_eval, BlunderLo, BlunderHi) # {}
    /\ ret = call.moves_with_eval[1][1]

(***************************************************************************)
(* Engine analysis (src/main.py:153-218, 707-737, 761-820)                 *)
(*                                                                         *)
(* An engine answer is "error" (engine.configure or engine.analyse raised) *)
(* or a list of entries [pv, score], score being White-relative:           *)
(* [mate |-> None or the mate distance, cp |-> centipawns].                *)
(***************************************************************************)
MateEval == 990

\* lines 196-207: the White-relative score in pawns, negated for black
EvalOfScore(score, side) ==
    LET white == IF score.mate # None
                 THEN (IF score.mate > 0 THEN MateEval ELSE 0 - MateEval)
                 ELSE score.cp
    IN  IF side = "black" THEN 0 - white ELSE white

get_alternative_moves(result, side) ==
    IF result = "error" THEN << >>
    ELSE [i \in DOMAIN result |->
            <<result[i].pv, EvalOfScore(result[i].score, side)>>]

\* the selected move (None when the analysis gave nothing) and the new
\* value of the global evaluation_score
get_best_move(result, side, legit, roll, pick, score) ==
    LET moves_with_eval == get_alternative_moves(result, side)
    IN  IF moves_with_eval = << >>
        THEN [move |-> None, evaluation_score |-> score]
        ELSE [move |-> select_legit_move(moves_with_eval, legit, side,
                                         roll, pick),
              evaluation_score |-> moves_with_eval[1][2]]

\* mutant: the position is analysed without a validated FEN
NeedsFenNever(fen) == FALSE

\* `if not fen: return` (lines 778-780 and 791-793)
NeedsFen(fen) == fen = None

\* mutant: the analysis goes on without an engine
EngineMissingNever(e) == FALSE

\* `if not engine: return` (lines 772-774)
EngineMissing(e) == e = None

\* analyze_and_display_best_move on board_state with the turn as updated in
\* this cycle: what it did and what it left of evaluation_score and arrows
analyze_and_display_best_move(board_state, turn, result, roll, pick) ==
    LET skip == [fen_ok |-> FALSE, queried |-> FALSE, answered |-> FALSE,
                 evaluation_score |-> evaluation_score, arrows |-> arrows]
        fen  == get_fen_from_board(board_state, turn)
        best == get_best_move(result, current_side, legit_mode, roll, pick,
                              evaluation_score)
    IN  IF ~args.enabled THEN [skip EXCEPT !.arrows = FALSE]
        ELSE IF EngineMissing(engine) THEN skip
        ELSE IF NeedsFen(fen) THEN skip
        ELSE [fen_ok |-> fen # None, queried |-> TRUE,
              answered |-> best.move # None,
              evaluation_score |-> best.evaluation_score,
              arrows |-> IF best.move # None THEN TRUE ELSE arrows]

(***************************************************************************)
(* monitor_board_state (src/main.py:822-929)                               *)
(***************************************************************************)
\* detect_turn_from_moves, on the length of the moves list
detect_turn_from_moves(moves_len) ==
    IF moves_len = 0 THEN "white"
    ELSE IF moves_len % 2 = 1 THEN "black" ELSE "white"

\* mutant: the turn is recomputed on every cycle, also from an empty list
TurnAfterAlways(moves_len, turn) == detect_turn_from_moves(moves_len)

\* lines 842-849: the turn is updated only `if moves_list:`
TurnAfter(moves_len, turn) ==
    IF moves_len > 0 THEN detect_turn_from_moves(moves_len) ELSE turn

\* lines 884-888: move_text is bound only when both squares convert, so the
\* first detected move raises UnboundLocalError when one does not
MoveLogRaises(moved) ==
    /\ moved # << >>
    /\ \/ convert_numeric_to_algebraic(moved[1][1]) = None
       \/ convert_numeric_to_algebraic(moved[1][2]) = None

\* mutant: the generic handler of monitor_board_state re-raises
PropagatedReraise(fault) == IF fault = "other" THEN "other" ELSE "none"

\* what monitor_board_state raises to main(): its three except clauses
\* (lines 915-929) catch every Exception and none re-raises
Propagated(fault) == "none"

\* One call of monitor_board_state. snapshot and moves_len are what the page
\* shows; fault is the exception raised in the try body ("none", "stale",
\* "nosuch", "other") and fault_at where: "start" (before the moves list is
\* read) or "afterTurn" (after the turn update).
\* mutant: a snapshot without a position string does not become the
\* baseline
BaselineAfterIfFen(snapshot, a) ==
    IF a.fen_ok THEN snapshot ELSE previous_board_state

\* `previous_board_state = current_board_state` (line 910), whatever the
\* analysis did
BaselineAfter(snapshot, a) == snapshot

\* mutant: every turn is taken for ours
OurTurnAlways(side, turn) == TRUE

\* lines 894-895: our_turn
OurTurn(side, turn) == side = turn

\* mutant: the baseline is kept through every fault
BaselineAfterFaultKept(fault, baseline) == baseline

\* the baseline after a cycle that ended in an except clause (src/main.py:
\* 915-929): only the NoSuchElementException clause assigns it
BaselineAfterFault(fault, baseline) ==
    IF fault = "nosuch" THEN << >> ELSE baseline

\* the last statement of a cycle that got through (src/main.py:912-913):
\* crash_count = 0
CrashCountKept(c) == c

CrashCountAfterCycle(c) == 0

monitor_board_state(snapshot, moves_len, fault, result, roll, pick) ==
    LET turn1 == TurnAfter(moves_len, current_turn)
        base == [previous_board_state |-> previous_board_state,
                 current_turn |-> current_turn,
                 crash_count |-> crash_count,
                 evaluation_score |-> evaluation_score,
                 arrows |-> arrows,
                 moved |-> 0, analysed |-> FALSE, fen_ok |-> FALSE,
                 queried |-> FALSE, answered |-> FALSE]
        handled(turn) ==
            [base EXCEPT !.current_turn = turn,
                         !.crash_count = crash_count + 1,
                         !.previous_board_state =
                            BaselineAfterFault(fault, previous_board_state)]
        moved == IF previous_board_state # << >>
                 THEN find_moved_pieces(previous_board_state, snapshot)
                 ELSE << >>
        our_turn == OurTurn(args.side, turn1)
        analysed == moved # << >> /\ ~MoveLogRaises(moved) /\ our_turn
        a == IF analysed
             THEN analyze_and_display_best_move(snapshot, turn1, result,
                                                roll, pick)
             ELSE [fen_ok |-> FALSE, queried |-> FALSE, answered |-> FALSE,
                   evaluation_score |-> evaluation_score, arrows |-> arrows]
    IN  IF fault # "none" THEN handled(turn1)
        ELSE IF snapshot = << >> THEN [base EXCEPT !.current_turn = turn1]
        ELSE [previous_board_state |-> BaselineAfter(snapshot, a),
              current_turn |-> turn1,
              crash_count |-> CrashCountAfterCycle(crash_count),
              evaluation_score |-> a.evaluation_score,
              arrows |-> a.arrows,
              moved |-> Len(moved), analysed |-> analysed,
              fen_ok |-> a.fen_ok,
              queried |-> a.queried, answered |-> a.answered]

(***************************************************************************)
(* The except clauses of main()'s loop (src/main.py:1216-1280)             *)
(***************************************************************************)
max_crashes == 5
refresh_cooldown == 30

\* r holds crash_count and main()'s counters; escaped is what
\* monitor_board_state raised; refresh_ok and reopen_ok tell whether
\* driver.refresh() and driver.get() succeed; t is time.time()
MainHandler(r, escaped, refresh_ok, reopen_ok, t) ==
    CASE escaped = "none" ->
            [r EXCEPT !.consecutive_errors = 0, !.last_error_type = None]
      [] escaped = "stale" ->
            LET n == r.consecutive_errors + 1
                q == [r EXCEPT !.consecutive_errors = n,
                               !.last_error_type = "stale_element"]
            IN  IF n >= 3 /\ (t - r.last_error_time) > refresh_cooldown
                THEN IF refresh_ok
                     THEN [q EXCEPT !.consecutive_errors = 0,
                                    !.last_error_time = t,
                                    !.recovery = "soft"]
                     ELSE [q EXCEPT !.recovery = "soft_failed"]
                ELSE q
      [] escaped = "timeout" ->
            LET n == r.timeout_count + 1
                q == [r EXCEPT !.timeout_count = n]
            IN  IF n >= 3
                THEN IF refresh_ok
                     THEN [q EXCEPT !.timeout_count = 0, !.recovery = "soft"]
                     ELSE [q EXCEPT !.recovery = "soft_failed"]
                ELSE q
      [] OTHER ->
            LET n == r.crash_count + 1
                q == [r EXCEPT !.crash_count = n]
            IN  IF n >= max_crashes
                THEN IF refresh_ok
                     THEN [q EXCEPT !.crash_count = 0, !.recovery = "soft"]
                     ELSE IF n >= max_crashes + 2
                     THEN IF reopen_ok
                          \* line 1278 assigns a local previous_board_state:
                          \* main() declares only crash_count and legit_mode
                          \* global, so the baseline is left as it was
                          THEN [q EXCEPT !.crash_count = 0,
                                         !.recovery = "hard"]
                          ELSE [q EXCEPT !.recovery = "hard_failed"]
                     ELSE [q EXCEPT !.recovery = "soft_failed"]
                ELSE q

(***************************************************************************)
(* check_browser_events (src/main.py:1068-1091)                            *)
(***************************************************************************)
ArgsAfterEvents(a, side_changed, legit_toggled) ==
    [a EXCEPT !.side = IF side_changed
                       THEN (IF a.side = "white" THEN "black" ELSE "white")
                       ELSE a.side,
              !.legit_mode = IF legit_toggled THEN ~a.legit_mode
                             ELSE a.legit_mode]

LegitAfterEvents(l, a, legit_toggled) ==
    IF legit_toggled THEN [l EXCEPT !.enabled = ~a.legit_mode] ELSE l

(***************************************************************************)
(* Specification Spec: the monitor thread running main() and the GUI       *)
(* thread, one action per loop iteration or handler.                       *)
(***************************************************************************)
MaxMoves == 1
MaxCrash == 6
TimeStep == 31
MaxTime == 31

Pos(a, b) == <<a, b>>

\* the snapshots get_board_state returns in the model: the empty one (no
\* piece could be read), two positions one pawn move apart and one position
\* with a second white king
SnapshotA == << <<Pos("5", "2"), "wp">>, <<Pos("5", "1"), "wk">>,
                <<Pos("5", "8"), "bk">> >>
SnapshotB == << <<Pos("5", "4"), "wp">>, <<Pos("5", "1"), "wk">>,
                <<Pos("5", "8"), "bk">> >>
SnapshotTwoWhiteKings == << <<Pos("5", "2"), "wp">>, <<Pos("5", "1"), "wk">>,
                            <<Pos("5", "8"), "bk">>, <<Pos("4", "1"), "wk">> >>
LoopSnapshots ==
    {<< >>, SnapshotA, SnapshotB, SnapshotTwoWhiteKings}

Faults == {"none", "stale", "nosuch", "other"}

\* the engine's answers: a failed query, or two ranked lines
EngineAnswers ==
    {"error",
     << [pv |-> "m1", score |-> [mate |-> None, cp |-> 100]],
        [pv |-> "m2", score |-> [mate |-> None, cp |-> 0]] >>}

LoopRolls == {0, 50}

\* what check_browser_events finds: <<side changed, legit mode toggled>>
BrowserEvents == {<<FALSE, FALSE>>, <<TRUE, FALSE>>, <<FALSE, TRUE>>}

MainEntered ==
    \* Config without a config.yaml (lines 52-58)
    /\ args = [enabled |-> TRUE, side |-> "white", legit_mode |-> TRUE,
               blunder_chance |-> 15, suboptimal_chance |-> 35]
    \* main() lines 1098-1100
    /\ legit_mode = [enabled |-> args.legit_mode,
                     blunder_chance |-> args.blunder_chance,
                     suboptimal_chance |-> args.suboptimal_chance]
    \* line 89
    /\ current_side = args.side
    \* line 299: initialize_stockfish returns the engine or None
    /\ engine \in (IF args.enabled THEN {"running", None} ELSE {None})
    /\ previous_board_state = << >>
    /\ current_turn = "white"
    /\ evaluation_score = 0
    /\ crash_count = 0
    /\ consecutive_errors = 0
    /\ timeout_count = 0
    /\ last_error_type = None
    /\ last_error_time = 0
    /\ now = 0
    /\ arrows = FALSE
    /\ cycle = NoCycle
    /\ teardown = << >>
    /\ StepIdle

LoopInit == MainEntered /\ pc = "starting"

\* the finally clause of main() (lines 1294-1307), driver being set
MainFinally ==
    /\ arrows' = FALSE
    /\ teardown' = teardown \o <<"clean_up_visual_elements">>
                   \o (IF engine # None THEN <<"engine.quit">> ELSE << >>)
    /\ engine' = IF engine # None THEN "quit" ELSE engine

\* main() up to the loop (lines 1157-1205): the driver may fail to start
\* (return, before the try) and the page may fail to load (return inside
\* the try, through finally)
Startup ==
    /\ pc = "starting"
    /\ \E driver_ok, page_ok \in BOOLEAN :
        IF ~driver_ok
        THEN /\ pc' = "returned"
             /\ UNCHANGED <<engine, arrows, teardown, last_error_time>>
        ELSE IF ~page_ok
        THEN /\ pc' = "returned"
             /\ MainFinally
             /\ UNCHANGED last_error_time
        ELSE /\ pc' = "loop"
             /\ last_error_time' = now
             /\ UNCHANGED <<engine, arrows, teardown>>
    /\ UNCHANGED <<previous_board_state, current_turn, evaluation_score,
                   current_side, crash_count, configVars, consecutive_errors,
                   timeout_count, last_error_type, now, cycle, pureVars,
                   stepVars>>

\* mutant: the loop gives up once the crash counter reaches max_crashes
PcAfterIterationGiveUp(crashes) ==
    IF crashes >= max_crashes THEN "returned" ELSE "loop"

\* `while True:` (line 1208): every handler falls through to the sleep
PcAfterIteration(crashes) == "loop"

\* One iteration of the loop of main(): monitor_board_state, the except
\* clause that matches what it raised, check_browser_events, the sleep.
MainLoopIteration ==
    /\ pc = "loop"
    /\ \E snapshot \in LoopSnapshots, moves_len \in 0..MaxMoves,
          fault \in Faults :
       \* a fault is injected only while the crash counter is below the cap
       /\ fault # "none" => crash_count < MaxCrash
       /\ \E dry \in {monitor_board_state(snapshot, moves_len, fault,
                                           "error", 0, 0)} :
          \* inputs that are not read take one value
          \E result \in (IF dry.queried THEN EngineAnswers ELSE {"error"}),
             roll \in (IF dry.queried /\ legit_mode.enabled
                       THEN LoopRolls ELSE {0}),
             refresh_ok, reopen_ok \in
                 (IF Propagated(fault) = "none" THEN {TRUE} ELSE BOOLEAN) :
          \E m \in {monitor_board_state(snapshot, moves_len, fault,
                                        result, roll, 0)} :
          \E r \in {MainHandler([crash_count |-> m.crash_count,
                                 consecutive_errors |-> consecutive_errors,
                                 timeout_count |-> timeout_count,
                                 last_error_type |-> last_error_type,
                                 last_error_time |-> last_error_time,
                                 recovery |-> "none"],
                                Propagated(fault), refresh_ok, reopen_ok,
                                now)} :
          \E events \in BrowserEvents :
            /\ previous_board_state' = m.previous_board_state
            /\ current_turn' = m.current_turn
            /\ evaluation_score' = m.evaluation_score
            /\ arrows' = m.arrows
            /\ crash_count' = r.crash_count
            /\ consecutive_errors' = r.consecutive_errors
            /\ timeout_count' = r.timeout_count
            /\ last_error_type' = r.last_error_type
            /\ last_error_time' = r.last_error_time
            /\ args' = ArgsAfterEvents(args, events[1], events[2])
            /\ legit_mode' = LegitAfterEvents(legit_mode, args, events[2])
            /\ now' = IF now + TimeStep < MaxTime THEN now + TimeStep
                      ELSE MaxTime
            /\ pc' = PcAfterIteration(r.crash_count)
            /\ cycle' =
                [ran |-> TRUE, snapshot_empty |-> snapshot = << >>,
                 moves_len |-> moves_len, fault |-> fault,
                 moved |-> m.moved, analysed |-> m.analysed,
                 fen_ok |-> m.fen_ok, queried |-> m.queried,
                 answered |-> m.answered, recovery |-> r.recovery,
                 unknown_streak |->
                    IF fault = "other"
                    THEN (IF cycle.unknown_streak < MaxCrash
                          THEN cycle.unknown_streak + 1 ELSE MaxCrash)
                    ELSE 0,
                 hard_in_streak |->
                    IF fault = "other"
                    THEN (IF r.recovery = "hard" /\ cycle.hard_in_streak < 2
                          THEN cycle.hard_in_streak + 1
                          ELSE cycle.hard_in_streak)
                    ELSE 0,
                 \* a fault-free cycle on a non-empty snapshot: did the
                 \* snapshot fail the king count, is it the baseline now
                 kings_bad |-> /\ fault = "none" /\ snapshot # << >>
                               /\ ~KingsValid(snapshot),
                 baseline_set |-> /\ fault = "none" /\ snapshot # << >>
                                  /\ m.previous_board_state = snapshot,
                 \* the crash counter was above zero when the cycle began
                 had_crashes |-> crash_count > 0,
                 \* a baseline was held when the cycle began
                 had_baseline |-> previous_board_state # << >>,
                 \* for a cycle that queried the engine: was analysis
                 \* enabled in the configuration it ran under, was the turn
                 \* it found the configured side's
                 enabled |-> m.queried /\ args.enabled,
                 our_turn |-> m.queried /\ args.side = m.current_turn]
    /\ UNCHANGED <<current_side, engine, teardown, pureVars, stepVars>>

\* ChessSettingsGUI.update_settings (src/settings_gui.py:172-194), run by the
\* GUI thread: int(self.elo_var.get()) raises for a malformed ELO entry,
\* after enabled and side have been written
UpdateSettings ==
    /\ pc \in {"starting", "loop", "returned"}
    /\ \E enabled \in BOOLEAN, side \in Sides, legit \in BOOLEAN,
          elo_ok \in BOOLEAN :
        IF elo_ok
        THEN /\ args' = [args EXCEPT !.enabled = enabled, !.side = side,
                                     !.legit_mode = legit]
             /\ legit_mode' = [legit_mode EXCEPT !.enabled = legit]
        ELSE /\ args' = [args EXCEPT !.enabled = enabled, !.side = side]
             /\ UNCHANGED legit_mode
    /\ UNCHANGED <<globalVars, mainVars, envVars, pc, cycle, teardown,
                   pureVars, stepVars>>

\* root.mainloop() returns (the window is closed, or Ctrl-C reaches the main
\* thread) and the process exits (lines 1331-1335): main() runs in a daemon
\* thread, which is abandoned where it stands
ProcessExit ==
    /\ pc \in {"starting", "loop", "returned"}
    /\ pc' = "killed"
    /\ UNCHANGED <<globalVars, configVars, mainVars, envVars, cycle,
                   teardown, pureVars, stepVars>>

Next == Startup \/ MainLoopIteration \/ UpdateSettings \/ ProcessExit

Init == PureIdle /\ LoopInit

Spec == Init /\ [][Next]_vars

(***************************************************************************)
(* Specification SpecConfig: update_settings of the GUI thread             *)
(* (src/settings_gui.py:172-194) and the configuration reads of one cycle  *)
(* of the monitor thread (src/main.py:894, 766, 102), one attribute access *)
(* per step.  The two threads share args and legit_mode and take no lock.  *)
(***************************************************************************)
\* the assignments of update_settings, in program order
UpdateOrder ==
    <<"config.enabled", "config.side", "config.elo", "config.legit_mode",
      "config.blunder_chance", "config.suboptimal_chance",
      "legit_mode.enabled", "legit_mode.blunder_chance",
      "legit_mode.suboptimal_chance">>

\* what the widgets hold when update_settings starts; elo_ok tells whether
\* int(self.elo_var.get()) succeeds
GuiForms == [enabled : BOOLEAN, side : Sides, elo_ok : BOOLEAN,
             legit_mode : BOOLEAN]

\* the fields a cycle reads, as they stand
ConfigRead == [side |-> args.side, enabled |-> args.enabled,
               legit_enabled |-> legit_mode.enabled]

ConfigInit == PureIdle /\ MainEntered /\ pc = "loop"

\* a widget callback calls update_settings; `before` remembers the
\* configuration the call found
GuiBegin ==
    /\ gui.at = 0
    /\ \E form \in GuiForms :
        gui' = [at |-> 1, form |-> form, before |-> <<args, legit_mode>>]
    /\ UNCHANGED <<pureVars, loopVars, seen>>

\* the next assignment of update_settings; a malformed ELO entry raises and
\* the except clause ends the handler
GuiWrite ==
    /\ gui.at \in 1..Len(UpdateOrder)
    /\ LET field == UpdateOrder[gui.at]
           form == gui.form
           raised == field = "config.elo" /\ ~form.elo_ok
       IN  /\ args' =
                IF field = "config.enabled"
                THEN [args EXCEPT !.enabled = form.enabled]
                ELSE IF field = "config.side"
                THEN [args EXCEPT !.side = form.side]
                ELSE IF field = "config.legit_mode"
                THEN [args EXCEPT !.legit_mode = form.legit_mode]
                ELSE args
           /\ legit_mode' =
                IF field = "legit_mode.enabled"
                THEN [legit_mode EXCEPT !.enabled = form.legit_mode]
                ELSE legit_mode
           /\ gui' = IF raised \/ gui.at = Len(UpdateOrder) THEN GuiIdle
                     ELSE [gui EXCEPT !.at = gui.at + 1]
    /\ UNCHANGED <<pureVars, globalVars, mainVars, envVars, pc, cycle,
                   teardown, seen>>

\* monitor_board_state starts a cycle in which a move is found
MonitorBeginCycle ==
    /\ pc = "loop"
    /\ seen.at = 0
    /\ seen' = [NotReading EXCEPT !.at = 1, !.start = ConfigRead]
    /\ UNCHANGED <<pureVars, loopVars, gui>>

\* the next read: args.side (line 894), args.enabled (line 766),
\* legit_mode.enabled (line 102); the cycle's reads end when it is not our
\* turn or when the analysis is disabled
MonitorRead ==
    /\ seen.at \in 1..3
    /\ seen' =
        IF seen.at = 1
        THEN [seen EXCEPT !.side = args.side, !.read = {"side"},
                          !.at = IF args.side = current_turn THEN 2 ELSE 4]
        ELSE IF seen.at = 2
        THEN [seen EXCEPT !.enabled = args.enabled,
                          !.read = seen.read \cup {"enabled"},
                          !.at = IF args.enabled /\ engine # None
                                 THEN 3 ELSE 4]
        ELSE [seen EXCEPT !.legit_enabled = legit_mode.enabled,
                          !.read = seen.read \cup {"legit_enabled"},
                          !.at = 4]
    /\ UNCHANGED <<pureVars, loopVars, gui>>

\* the cycle returns
MonitorEndCycle ==
    /\ seen.at = 4
    /\ seen' = NotReading
    /\ UNCHANGED <<pureVars, loopVars, gui>>

ConfigNext ==
    GuiBegin \/ GuiWrite \/ MonitorBeginCycle \/ MonitorRead
    \/ MonitorEndCycle

SpecConfig == ConfigInit /\ [][ConfigNext]_vars

(***************************************************************************)
(* Claims about the polling loop                                           *)
(***************************************************************************)
\* the last cycle ran to its end on a non-empty snapshot, which is now the
\* baseline
CycleKeptSnapshot ==
    cycle.ran /\ cycle.fault = "none" /\ ~cycle.snapshot_empty

\* C2: a snapshot whose count of white kings or of black kings is not
\* exactly one gets no position string, and the cycle that saw it sends no
\* query to the engine.
C2_KingInvariantRejected ==
    (CycleKeptSnapshot /\ ~KingsValid(previous_board_state)) =>
        /\ get_fen_from_board(previous_board_state, current_turn) = None
        /\ ~cycle.fen_ok
        /\ ~cycle.queried

\* a cycle found a move on our turn with the analysis enabled and the engine
\* running, the snapshot had two white kings, and no query was sent
C2_Witness ==
    /\ CycleKeptSnapshot
    /\ cycle.analysed
    /\ args.enabled
    /\ engine = "running"
    /\ ~KingsValid(previous_board_state)
    /\ ~cycle.queried

\* C3: five consecutive cycles classified as UnknownFault trigger exactly one
\* hard recovery, after which the same-kind counter and the crash counter are
\* both zero.
C3_FiveUnknownOneHardRecovery ==
    cycle.unknown_streak = 5 =>
        /\ cycle.hard_in_streak = 1
        /\ crash_count = 0
        /\ consecutive_errors = 0

\* C4: no fault ends the polling loop: after a faulty cycle the loop is
\* still running, and it leaves the loop only when the process is stopped.
C4_LoopEndsOnlyOnCancel ==
    /\ [](cycle.fault # "none" /\ pc # "killed" => pc = "loop")
    /\ [][pc = "loop" => pc' \in {"loop", "killed"}]_vars

\* the loop is running after a faulty cycle that took the crash counter past
\* max_crashes
C4_Witness ==
    /\ pc = "loop"
    /\ cycle.fault = "other"
    /\ crash_count > max_crashes

\* C5: every cycle uses one configuration, the one that stood when the
\* cycle started: each field it reads has the value of that moment.
C5_ConsistentConfigPerCycle ==
    /\ "side" \in seen.read => seen.side = seen.start.side
    /\ "enabled" \in seen.read => seen.enabled = seen.start.enabled
    /\ "legit_enabled" \in seen.read
        => seen.legit_enabled = seen.start.legit_enabled

\* C6: when the loop has ended on a stop signal, the arrows have been
\* removed and then the engine has been shut down, once.
C6_CleanupThenShutdownOnStop ==
    (pc = "killed" /\ cycle.ran /\ engine # None) =>
        /\ teardown = <<"clean_up_visual_elements", "engine.quit">>
        /\ ~arrows
        /\ engine = "quit"

\* C9: after every cycle current_turn is black if the move list seen in the
\* cycle has odd length and white if it has even length, zero included.
C9_TurnIsMoveLogParity ==
    cycle.ran => current_turn = detect_turn_from_moves(cycle.moves_len)

\* C10: a failed engine query leaves the engine as it is, and the next cycle
\* that sees the same position, on our turn and with the analysis enabled,
\* queries the engine again.
C10_FailedQueryRetried ==
    /\ [](cycle.queried /\ ~cycle.answered /\ pc = "loop"
          => engine = "running")
    /\ [][(/\ cycle.queried /\ ~cycle.answered
           /\ args.enabled /\ args' = args
           /\ cycle'.ran /\ cycle'.fault = "none"
           /\ ~cycle'.snapshot_empty
           /\ previous_board_state' = previous_board_state
           /\ current_turn' = current_turn
           /\ args.side = current_turn)
          => cycle'.queried]_vars

\* C11: a configuration update that is malformed in a field is discarded as
\* a whole: when it ends, every field of args and of legit_mode has the value
\* it had when the update began.
C11_MalformedUpdateDiscarded ==
    [][(gui.at > 0 /\ ~gui.form.elo_ok /\ gui'.at = 0)
       => (args' = gui.before[1] /\ legit_mode' = gui.before[2])]_vars

\* C12: a cycle whose snapshot is empty finds no move, sends no query and
\* leaves the baseline, the turn and the crash counter as they were.
C12_EmptySnapshotNoOp ==
    [][(cycle' # cycle /\ cycle'.snapshot_empty /\ cycle'.fault = "none")
       => /\ cycle'.moved = 0
          /\ ~cycle'.queried
          /\ previous_board_state' = previous_board_state
          /\ current_turn' = current_turn
          /\ crash_count' = crash_count]_vars

(***************************************************************************)
(* Specification SpecSkill: the skill level initialize_stockfish computes  *)
(* from the ELO (src/main.py:272-278), for every ELO of a bounded range.   *)
(***************************************************************************)
\* int(n / d) for d > 0: Python's int() drops the fraction, towards zero
IntOfQuotient(n, d) ==
    IF n >= 0 THEN n \div d ELSE 0 - ((0 - n) \div d)

\* mutant: the lower clamp is missing
skill_level_no_floor(elo) ==
    LET v == IntOfQuotient(elo - 800, 120)
    IN  IF v < 20 THEN v ELSE 20

\* max(0, min(20, int((elo - 800) / 120)))
skill_level(elo) ==
    LET v == IntOfQuotient(elo - 800, 120)
        m == IF v < 20 THEN v ELSE 20
    IN  IF m > 0 THEN m ELSE 0

MaxElo == 5200
MaxEloBelowZero == 300

Elos == (0 - MaxEloBelowZero)..MaxElo

SkillInit ==
    /\ call \in {[fn |-> "skill_level", elo |-> e] : e \in Elos}
    /\ ret = "pending"
    /\ LoopIdle

SkillApply ==
    /\ call.fn = "skill_level"
    /\ ret = "pending"
    \* the integer is held in a one-element tuple
    /\ ret' = <<skill_level(call.elo)>>
    /\ UNCHANGED <<call, loopVars, stepVars>>

SkillNext == SkillApply

SpecSkill == SkillInit /\ [][SkillNext]_vars

SkillDone == call.fn = "skill_level" /\ ret # "pending"

\* clamp(0, 20, floor((targetElo - 800) / 120)); \div rounds down
SpecSkillLevel(targetElo) ==
    LET f == (targetElo - 800) \div 120
    IN  IF f < 0 THEN 0 ELSE IF f > 20 THEN 20 ELSE f

\* C14: for every integer ELO the skill level equals
\* clamp(0, 20, floor((elo - 800) / 120)); 800 gives 0, 2000 gives 10, 3200
\* gives 20, 0 gives 0 and 5000 gives 20.
C14_SkillLevelMapping ==
    SkillDone =>
        /\ ret[1] = SpecSkillLevel(call.elo)
        /\ call.elo = 800 => ret[1] = 0
        /\ call.elo = 2000 => ret[1] = 10
        /\ call.elo = 3200 => ret[1] = 20
        /\ call.elo = 0 => ret[1] = 0
        /\ call.elo = 5000 => ret[1] = 20

\* an ELO below 800 that is no multiple of 120 away from it, where int()
\* and floor differ before the clamp
C14_Witness ==
    /\ SkillDone
    /\ call.elo = 700
    /\ IntOfQuotient(call.elo - 800, 120) # (call.elo - 800) \div 120
    /\ ret[1] = 0

(***************************************************************************)
(* Specification SpecTrack: the fault-free path of monitor_board_state     *)
(* over a sequence of snapshots (src/main.py:855-913): the diff against    *)
(* the baseline, the baseline update, and the position string of the       *)
(* snapshot (src/main.py:505-575).                                         *)
(***************************************************************************)
SnapshotC == << <<Pos("5", "4"), "wp">>, <<Pos("5", "1"), "wk">>,
                <<Pos("5", "7"), "bk">> >>
\* the same three positions keyed by data-square names
SnapshotAe2 == << <<Pos("e", "2"), "wp">>, <<Pos("e", "1"), "wk">>,
                  <<Pos("e", "8"), "bk">> >>
SnapshotBe4 == << <<Pos("e", "4"), "wp">>, <<Pos("e", "1"), "wk">>,
                  <<Pos("e", "8"), "bk">> >>
SnapshotCe7 == << <<Pos("e", "4"), "wp">>, <<Pos("e", "1"), "wk">>,
                  <<Pos("e", "7"), "bk">> >>

TrackSnapshots ==
    LoopSnapshots \cup {SnapshotC, SnapshotAe2, SnapshotBe4, SnapshotCe7}

TrackInit ==
    /\ call = [fn |-> "update", old |-> << >>, snapshot |-> << >>,
               turn |-> "white"]
    /\ ret = "pending"
    /\ LoopIdle

\* one cycle: `turn` is what the move list gives for current_turn; ret holds
\* the moves found and the position string of the snapshot
TrackUpdate ==
    /\ call.fn = "update"
    /\ \E snapshot \in TrackSnapshots, turn \in Sides :
        LET moves == IF snapshot # << >> /\ previous_board_state # << >>
                     THEN find_moved_pieces(previous_board_state, snapshot)
                     ELSE << >>
        IN  /\ call' = [fn |-> "update", old |-> previous_board_state,
                        snapshot |-> snapshot, turn |-> turn]
            /\ ret' = <<moves, get_fen_from_board(snapshot, turn)>>
            /\ previous_board_state' =
                    IF snapshot = << >> THEN previous_board_state
                    ELSE snapshot
            /\ current_turn' = turn
    /\ UNCHANGED <<evaluation_score, current_side, engine, crash_count,
                   configVars, mainVars, envVars, pc, cycle, teardown,
                   stepVars>>

TrackNext == TrackUpdate

SpecTrack == TrackInit /\ [][TrackNext]_vars

TrackDone == call.fn = "update" /\ ret # "pending"

\* the space-separated fields of a position string
RECURSIVE FenFields(_)
FenFields(fen) ==
    IF \E i \in DOMAIN fen : fen[i] = " "
    THEN LET i == CHOOSE i \in DOMAIN fen :
                    fen[i] = " " /\ \A j \in 1..(i - 1) : fen[j] # " "
         IN  <<SubSeq(fen, 1, i - 1)>>
             \o FenFields(SubSeq(fen, i + 1, Len(fen)))
    ELSE <<fen>>

\* 4k3/8/8/8/4P3/8/8/4K3
PlacementAfterE4 ==
    <<"4", "k", "3", "/", "8", "/", "8", "/", "8", "/", "4", "P", "3", "/",
      "8", "/", "8", "/", "4", "K", "3">>

\* C15: with no baseline, snapshot A = {e2: wp, e1: wk, e8: bk} yields no
\* move; B = {e4: wp, e1: wk, e8: bk} after it yields exactly the move
\* e2 -> e4 of the white pawn, and the position string of B with white to
\* move has the placement 4k3/8/8/8/4P3/8/8/4K3 and the active colour w.
C15_ScenarioE2E4 ==
    /\ (TrackDone /\ call.old = << >> /\ call.snapshot = SnapshotAe2)
        => ret[1] = << >>
    /\ (TrackDone /\ call.old = SnapshotAe2 /\ call.snapshot = SnapshotBe4)
        => /\ ret[1] = << <<Pos("e", "2"), Pos("e", "4"), "wp">> >>
           /\ call.turn = "white" =>
                /\ ret[2] # None
                /\ FenFields(ret[2])[1] = PlacementAfterE4
                /\ FenFields(ret[2])[2] = <<"w">>

\* B was fed after A with white to move
C15_Witness ==
    /\ TrackDone
    /\ call.old = SnapshotAe2
    /\ call.snapshot = SnapshotBe4
    /\ call.turn = "white"
    /\ previous_board_state = SnapshotBe4
    /\ Len(ret[1]) = 1

\* C16: when the engine could not be located or launched, the loop keeps
\* running: no query is ever sent, and a cycle without a fault of its own
\* stays in the loop, raises no fault counter and still diffs and updates
\* the baseline.
C16_NoEngineNoAnalysisMode ==
    /\ [](engine = None => (~cycle.queried /\ ~cycle.answered))
    /\ [][(engine = None /\ cycle' # cycle /\ cycle'.fault = "none")
          => /\ pc' = "loop"
             /\ crash_count' <= crash_count
             /\ consecutive_errors' = 0
             /\ timeout_count' = timeout_count
             /\ cycle'.recovery = "none"
             /\ ~cycle'.snapshot_empty => crash_count' = 0]_vars

\* without an engine a cycle found a move on our turn with the analysis
\* enabled, called the analysis, sent no query and made the snapshot the
\* baseline; the loop is running
C16_Witness ==
    /\ engine = None
    /\ pc = "loop"
    /\ args.enabled
    /\ CycleKeptSnapshot
    /\ cycle.moved = 1
    /\ cycle.analysed
    /\ ~cycle.queried
    /\ crash_count = 0

\* C17: a non-empty snapshot that fails the king count is not a fault: the
\* cycle sends no query, the snapshot becomes the baseline, no recovery runs
\* and the crash counter is not raised (it is zero after the cycle).
C17_InvalidKingsNotAFault ==
    cycle.kings_bad =>
        /\ ~cycle.queried
        /\ cycle.baseline_set
        /\ cycle.recovery = "none"
        /\ crash_count = 0
        /\ consecutive_errors = 0

\* the analysis was called on a snapshot with two white kings, with the
\* engine running, and the snapshot is the baseline
C17_Witness ==
    /\ cycle.kings_bad
    /\ cycle.analysed
    /\ args.enabled
    /\ engine = "running"
    /\ previous_board_state = SnapshotTwoWhiteKings

(***************************************************************************)
(* Specification SpecConv: the two position conversions                    *)
(* (src/main.py:301-335) applied to every string of a bounded length over  *)
(* the characters of the model, each followed by the conversion back.      *)
(***************************************************************************)
MaxKeyLen == 2

ConvChars ==
    {FileLetters[i] : i \in DOMAIN FileLetters}
    \cup {DigitChars[i] : i \in DOMAIN DigitChars}
    \cup {"i", "z", "E", "Z"}

ConvStrings == UNION {[1..n -> ConvChars] : n \in 0..MaxKeyLen}

ConvInit ==
    /\ call \in {[fn |-> f, arg |-> a] :
                    f \in {"convert_algebraic_to_numeric",
                           "convert_numeric_to_algebraic"},
                    a \in ConvStrings}
    /\ ret = "pending"
    /\ LoopIdle

\* ret holds the conversion of arg and the conversion back of that (None
\* when there is nothing to convert back)
ConvApply ==
    /\ call.fn \in {"convert_algebraic_to_numeric",
                    "convert_numeric_to_algebraic"}
    /\ ret = "pending"
    /\ ret' =
        IF call.fn = "convert_algebraic_to_numeric"
        THEN LET out == convert_algebraic_to_numeric(call.arg)
             IN  <<out, IF out = None THEN None
                        ELSE convert_numeric_to_algebraic(out)>>
        ELSE LET out == convert_numeric_to_algebraic(call.arg)
             IN  <<out, IF out = None THEN None
                        ELSE convert_algebraic_to_numeric(out)>>
    /\ UNCHANGED <<call, loopVars, stepVars>>

ConvNext == ConvApply

SpecConv == ConvInit /\ [][ConvNext]_vars

ConvDone ==
    /\ call.fn \in {"convert_algebraic_to_numeric",
                    "convert_numeric_to_algebraic"}
    /\ ret # "pending"

RankChars == {"1", "2", "3", "4", "5", "6", "7", "8"}

\* the letter-file and the digit-file spelling of the 64 squares
AlgSquares ==
    {<<f, r>> : f \in {FileLetters[i] : i \in DOMAIN FileLetters},
                r \in RankChars}
NumSquares == {<<f, r>> : f \in RankChars, r \in RankChars}

\* s is one of the 64 spellings of the encoding the function takes
IsSquareSpelling(fn, s) ==
    IF fn = "convert_algebraic_to_numeric"
    THEN s \in AlgSquares ELSE s \in NumSquares

\* s names a square in the encoding the function takes, a letter file being
\* allowed in upper case (alg[0].lower(), line 307)
NamesSquare(fn, s) ==
    IF fn = "convert_algebraic_to_numeric"
    THEN Len(s) = 2 /\ <<Lower(s[1]), s[2]>> \in AlgSquares
    ELSE s \in NumSquares

\* the round trips over the 64 squares, both ways
RoundTrips ==
    /\ (call.fn = "convert_algebraic_to_numeric"
        /\ call.arg \in AlgSquares)
        => (ret[1] \in NumSquares /\ ret[2] = call.arg)
    /\ (call.fn = "convert_numeric_to_algebraic"
        /\ call.arg \in NumSquares)
        => (ret[1] \in AlgSquares /\ ret[2] = call.arg)

\* C18 as stated: for each of the 64 squares, letter-file to digit-file and
\* back gives the original spelling, and so does digit-file to letter-file
\* and back; every input that is not one of the 64 spellings of its encoding
\* converts to None.
C18_InvalidSpellingRejected ==
    ConvDone =>
        /\ RoundTrips
        /\ ~IsSquareSpelling(call.fn, call.arg) => ret[1] = None

\* C18, amended: the round trips hold for the 64 squares; a letter file in
\* upper case is accepted and converts to the square it names (the way back
\* gives the lower-case spelling); an input that names no square converts to
\* None, and no input converts to a square other than the one it names.
C18_ConversionRoundTrip ==
    ConvDone =>
        /\ RoundTrips
        /\ ~NamesSquare(call.fn, call.arg) => ret[1] = None
        /\ ret[1] # None => SquareOf(ret[1]) = SquareOf(call.arg)
        /\ (NamesSquare(call.fn, call.arg)
            /\ ~IsSquareSpelling(call.fn, call.arg))
            => (ret[1] \in NumSquares /\ ret[2] = <<Lower(call.arg[1]),
                                                    call.arg[2]>>)

\* E2 was converted to 52, and 52 back to e2
C18_Witness ==
    /\ ConvDone
    /\ call.fn = "convert_algebraic_to_numeric"
    /\ call.arg = <<"E", "2">>
    /\ ret = << <<"5", "2">>, <<"e", "2">> >>

(***************************************************************************)
(* C19, C20: the crash counter across cycles                               *)
(***************************************************************************)

\* C19 as stated: after any cycle that completes without a fault, the
\* same-kind consecutive-fault counter and the global crash counter are both
\* zero, whatever they were before the cycle.
C19_FaultFreeCycleResetsCounters ==
    (cycle.ran /\ cycle.fault = "none") =>
        (consecutive_errors = 0 /\ crash_count = 0)

\* C19: a fault-free cycle leaves the same-kind counter at zero; on a
\* non-empty snapshot it also sets the crash counter to zero, whatever it was
\* before, and on an empty snapshot it leaves the crash counter as it was.
C19_NonEmptyCycleResetsCounters ==
    [][(cycle'.ran /\ cycle'.fault = "none") =>
          /\ consecutive_errors' = 0
          /\ IF cycle'.snapshot_empty
             THEN crash_count' = crash_count
             ELSE crash_count' = 0]_vars

\* a fault-free cycle on a non-empty snapshot began with the crash counter
\* above zero and ended with both counters at zero
C19_Witness ==
    /\ cycle.ran
    /\ cycle.fault = "none"
    /\ ~cycle.snapshot_empty
    /\ cycle.had_crashes
    /\ crash_count = 0
    /\ consecutive_errors = 0

\* C20: each cycle that ends in an unclassified fault raises the crash counter
\* by one; a soft recovery is attempted in the cycle that takes the counter to
\* 5 and a hard recovery in the cycle that takes it to 7.
C20_RecoveryAtThresholds ==
    [][(cycle'.unknown_streak = cycle.unknown_streak + 1) =>
          /\ crash_count' = crash_count + 1
          /\ crash_count' = max_crashes =>
                cycle'.recovery \in {"soft", "soft_failed"}
          /\ crash_count' = max_crashes + 2 =>
                cycle'.recovery \in {"hard", "hard_failed"}]_vars

(***************************************************************************)
(* Specification SpecAnalyzer: the loop of src/chess/chess_analyzer.py,    *)
(* run without an engine (initialize_stockfish returned None), so that     *)
(* analyze_and_display_best_move returns at `if not engine`.  Its          *)
(* monitor_board_state names traceback in its generic except clause, and   *)
(* the module does not import it: the NameError leaves the function and is *)
(* caught by `except Exception` in main(), whose recovery code is the same *)
(* as in src/main.py.                                                      *)
(***************************************************************************)

\* monitor_board_state of chess_analyzer.py (lines 652-756); escaped is what
\* it raises to main()
analyzer_monitor_board_state(snapshot, moves_len, fault) ==
    LET turn1 == TurnAfter(moves_len, current_turn)
        moved == IF previous_board_state # << >> /\ snapshot # << >>
                 THEN find_moved_pieces(previous_board_state, snapshot)
                 ELSE << >>
    IN  IF fault = "stale"
        THEN [previous_board_state |-> previous_board_state,
              current_turn |-> turn1, crash_count |-> crash_count + 1,
              moved |-> 0, escaped |-> "none"]
        ELSE IF fault = "nosuch"
        THEN [previous_board_state |-> << >>,
              current_turn |-> turn1, crash_count |-> crash_count + 1,
              moved |-> 0, escaped |-> "none"]
        ELSE IF fault = "other"
        \* lines 752-756: crash_count += 1, then traceback.format_exc()
        THEN [previous_board_state |-> previous_board_state,
              current_turn |-> turn1, crash_count |-> crash_count + 1,
              moved |-> 0, escaped |-> "other"]
        ELSE IF snapshot = << >>
        THEN [previous_board_state |-> previous_board_state,
              current_turn |-> turn1, crash_count |-> crash_count,
              moved |-> 0, escaped |-> "none"]
        ELSE [previous_board_state |-> snapshot,
              current_turn |-> turn1, crash_count |-> 0,
              moved |-> Len(moved), escaped |-> "none"]

AnalyzerInit ==
    /\ PureIdle
    /\ MainEntered
    /\ engine = None
    /\ pc = "loop"

\* One iteration of the loop of main() in chess_analyzer.py (lines 932-1009)
AnalyzerLoopIteration ==
    /\ pc = "loop"
    /\ \E snapshot \in LoopSnapshots, moves_len \in 0..MaxMoves,
          fault \in Faults :
       /\ fault # "none" => crash_count < MaxCrash
       /\ \E m \in {analyzer_monitor_board_state(snapshot, moves_len, fault)} :
          \E refresh_ok, reopen_ok \in
                 (IF m.escaped = "none" THEN {TRUE} ELSE BOOLEAN) :
          \E r \in {MainHandler([crash_count |-> m.crash_count,
                                 consecutive_errors |-> consecutive_errors,
                                 timeout_count |-> timeout_count,
                                 last_error_type |-> last_error_type,
                                 last_error_time |-> last_error_time,
                                 recovery |-> "none"],
                                m.escaped, refresh_ok, reopen_ok, now)} :
            /\ previous_board_state' = m.previous_board_state
            /\ current_turn' = m.current_turn
            /\ crash_count' = r.crash_count
            /\ consecutive_errors' = r.consecutive_errors
            /\ timeout_count' = r.timeout_count
            /\ last_error_type' = r.last_error_type
            /\ last_error_time' = r.last_error_time
            /\ now' = IF now + TimeStep < MaxTime THEN now + TimeStep
                      ELSE MaxTime
            /\ cycle' =
                [ran |-> TRUE, snapshot_empty |-> snapshot = << >>,
                 moves_len |-> moves_len, fault |-> fault,
                 moved |-> m.moved, analysed |-> FALSE,
                 fen_ok |-> FALSE, queried |-> FALSE,
                 answered |-> FALSE, recovery |-> r.recovery,
                 unknown_streak |->
                    IF fault = "other"
                    THEN (IF cycle.unknown_streak < MaxCrash
                          THEN cycle.unknown_streak + 1 ELSE MaxCrash)
                    ELSE 0,
                 hard_in_streak |->
                    IF fault = "other"
                    THEN (IF r.recovery = "hard" /\ cycle.hard_in_streak < 2
                          THEN cycle.hard_in_streak + 1
                          ELSE cycle.hard_in_streak)
                    ELSE 0,
                 kings_bad |-> /\ fault = "none" /\ snapshot # << >>
                               /\ ~KingsValid(snapshot),
                 baseline_set |-> /\ fault = "none" /\ snapshot # << >>
                                  /\ m.previous_board_state = snapshot,
                 had_crashes |-> crash_count > 0,
                 \* a baseline was held when the cycle began
                 had_baseline |-> previous_board_state # << >>,
                 \* no engine, no query
                 enabled |-> FALSE, our_turn |-> FALSE]
    /\ UNCHANGED <<evaluation_score, arrows, args, legit_mode, current_side,
                   engine, pc, teardown, pureVars, stepVars>>

\* Ctrl-C in the loop: `except KeyboardInterrupt`, then the finally clause
\* (lines 1013-1032)
AnalyzerInterrupt ==
    /\ pc = "loop"
    /\ pc' = "returned"
    /\ MainFinally
    /\ UNCHANGED <<previous_board_state, current_turn, evaluation_score,
                   current_side, crash_count, configVars, consecutive_errors,
                   timeout_count, last_error_type, last_error_time, now,
                   cycle, pureVars, stepVars>>

AnalyzerNext == AnalyzerLoopIteration \/ AnalyzerInterrupt

SpecAnalyzer == AnalyzerInit /\ [][AnalyzerNext]_vars

\* C21: after a hard recovery the same-kind counter and the crash counter are
\* zero and the previous-snapshot baseline is empty.
C21_HardRecoveryResetsBaseline ==
    cycle.recovery = "hard" =>
        /\ consecutive_errors = 0
        /\ crash_count = 0
        /\ previous_board_state = << >>

\* C22: a cycle that ends in a stale-view fault raises the same-kind counter
\* by one; a soft recovery is triggered exactly when the raised counter is at
\* least 3 and at least refresh_cooldown time units have passed since the last
\* recovery, and the recovery sets the counter to zero and records its time.
C22_StaleCounterAndCooldown ==
    [][(cycle'.fault = "stale" /\ crash_count' # crash_count) =>
          LET n == consecutive_errors + 1
              due == n >= 3 /\ now - last_error_time >= refresh_cooldown
          IN  /\ (cycle'.recovery # "none") <=> due
              /\ cycle'.recovery = "soft" =>
                    (consecutive_errors' = 0 /\ last_error_time' = now)
              /\ cycle'.recovery = "none" => consecutive_errors' = n]_vars

\* C23: a cycle that ends in a structural fault empties the previous-snapshot
\* baseline, raises the crash counter by exactly one and triggers no
\* recovery; the cycle that next sets a baseline from the empty one found no
\* move, analysed nothing and holds its own snapshot as the baseline.
C23_StructuralFaultDropsBaseline ==
    /\ [][(cycle'.fault = "nosuch" /\ crash_count' # crash_count) =>
             /\ previous_board_state' = << >>
             /\ crash_count' = crash_count + 1
             /\ cycle'.recovery = "none"]_vars
    /\ [][(previous_board_state = << >> /\ previous_board_state' # << >>) =>
             /\ cycle'.fault = "none"
             /\ cycle'.moved = 0
             /\ ~cycle'.analysed
             /\ ~cycle'.queried
             /\ cycle'.baseline_set]_vars

\* a structural fault struck while a baseline was held, and the baseline is
\* empty after the cycle
C23_Witness ==
    /\ cycle.ran
    /\ cycle.fault = "nosuch"
    /\ cycle.had_baseline
    /\ previous_board_state = << >>
    /\ crash_count > 0
    /\ cycle.recovery = "none"

(***************************************************************************)
(* Specification SpecEval: the evaluations select_legit_move compares, for *)
(* every bounded list of engine lines, configured side (args.side) and     *)
(* value of the module global current_side.  current_side is bound once,   *)
(* when the module is loaded (line 89); args.side is switched at run time  *)
(* by check_browser_events and by the settings window.                     *)
(***************************************************************************)
MaxLines == 2

\* the engine's scores, White-relative, in centipawns (no mate in sight)
EngineScores == [mate : {None}, cp : EvalCp]

\* the lists of n engine lines, the i-th line's move named after its rank
RECURSIVE ResultsOfLen(_)
ResultsOfLen(n) ==
    IF n = 0 THEN {<< >>}
    ELSE {Append(r, [pv |-> MoveNames[n], score |-> sc]) :
            r \in ResultsOfLen(n - 1), sc \in EngineScores}

EngineResults == UNION {ResultsOfLen(n) : n \in 1..MaxLines}

EvalInit ==
    /\ call \in [fn : {"compared_evaluations"}, result : EngineResults,
                 side : Sides, current_side : Sides]
    /\ ret = "pending"
    /\ LoopIdle

\* get_alternative_moves (lines 196-212), then the adjustment at the head of
\* select_legit_move (lines 108-112): the list the two filters read
EvalApply ==
    /\ call.fn = "compared_evaluations"
    /\ ret = "pending"
    /\ ret' = <<Adjusted(get_alternative_moves(call.result,
                                                call.current_side),
                          call.current_side)>>
    /\ UNCHANGED <<call, loopVars, stepVars>>

EvalNext == EvalApply

SpecEval == EvalInit /\ [][EvalNext]_vars

EvalDone == call.fn = "compared_evaluations" /\ ret # "pending"

\* the engine's score for White, in the model's units
WhiteScore(score) ==
    IF score.mate # None
    THEN (IF score.mate > 0 THEN MateEval ELSE 0 - MateEval)
    ELSE score.cp

\* the engine's lines are sorted best first for the acting side
BestFirstFor(result, side) ==
    \A i, j \in DOMAIN result :
        i < j => IF side = "black"
                 THEN WhiteScore(result[i].score) <= WhiteScore(result[j].score)
                 ELSE WhiteScore(result[i].score) >= WhiteScore(result[j].score)

\* C24: each evaluation select compares is the engine's White-relative score,
\* negated once if the configured acting side is black and unchanged if it is
\* white, so that on a list sorted best first for the acting side no deficit
\* from the first candidate is negative.
C24_EvaluationsInActingSidePerspective ==
    EvalDone =>
        /\ \A i \in DOMAIN ret[1] :
              ret[1][i][2] = IF call.side = "black"
                             THEN 0 - WhiteScore(call.result[i].score)
                             ELSE WhiteScore(call.result[i].score)
        /\ BestFirstFor(call.result, call.side) =>
              \A i \in DOMAIN ret[1] : ret[1][1][2] - ret[1][i][2] >= 0

(***************************************************************************)
(* C25: one diff matches every changed position at most once               *)
(***************************************************************************)

\* the positions of new_state that hold a piece old_state did not hold there
AppearedAt(old_state, new_state) ==
    {k \in DictKeys(new_state) :
        k \notin DictKeys(old_state)
        \/ DictGet(old_state, k) # DictGet(new_state, k)}

\* the positions of old_state whose piece new_state does not hold there
DisappearedAt(old_state, new_state) ==
    {k \in DictKeys(old_state) :
        k \notin DictKeys(new_state)
        \/ DictGet(new_state, k) # DictGet(old_state, k)}

SmallerOf(a, b) == IF a <= b THEN a ELSE b

\* C25: in the result of one diff no appeared position is the target of two
\* moves and no disappeared position the source of two; every move takes a
\* disappeared piece to an appeared position holding the identical piece
\* code, so a disappeared piece without such a position left gives no move;
\* the number of moves is at most the smaller of the two change sets.
C25_NoDoubleMatching ==
    DiffDone =>
        LET app == AppearedAt(call.old_state, call.new_state)
            dis == DisappearedAt(call.old_state, call.new_state)
        IN  /\ \A i, j \in DOMAIN ret :
                  i # j => (ret[i][1] # ret[j][1] /\ ret[i][2] # ret[j][2])
            /\ \A i \in DOMAIN ret :
                  /\ ret[i][1] \in dis
                  /\ ret[i][2] \in app
                  /\ DictGet(call.old_state, ret[i][1]) = ret[i][3]
                  /\ DictGet(call.new_state, ret[i][2]) = ret[i][3]
            /\ \A p \in DiffPieces :
                  Cardinality({i \in DOMAIN ret : ret[i][3] = p}) =
                  SmallerOf(
                    Cardinality({k \in dis : DictGet(call.old_state, k) = p}),
                    Cardinality({k \in app : DictGet(call.new_state, k) = p}))
            /\ Len(ret) <= SmallerOf(Cardinality(app), Cardinality(dis))

\* two pieces of the same code left their positions and one position gained
\* that code: one move is reported, the second piece finds no entry left
C25_Witness ==
    /\ DiffDone
    /\ \E p \in DiffPieces :
        /\ Cardinality({k \in DisappearedAt(call.old_state, call.new_state) :
                            DictGet(call.old_state, k) = p}) = 2
        /\ Cardinality({k \in AppearedAt(call.old_state, call.new_state) :
                            DictGet(call.new_state, k) = p}) = 1
    /\ Len(ret) = 1

(***************************************************************************)
(* Specification SpecFen: get_fen_from_board applied to every bounded      *)
(* snapshot over keys in both encodings, one of them out of range, two of  *)
(* them spelling the same square.                                          *)
(***************************************************************************)
MaxFenPieces == 3

\* 51 and e1 spell the same square; 59 has no rank on the board
FenKeys == {<<"5", "1">>, <<"e", "1">>, <<"a", "1">>, <<"5", "8">>,
            <<"5", "9">>}
FenPieces == {"wk", "bk", "wp"}

FenSnapshots ==
    {d \in UNION {DictsOfLen(FenKeys, FenPieces, n) : n \in 0..MaxFenPieces} :
        IsDict(d)}

FenInit ==
    /\ call \in [fn : {"get_fen_from_board"}, board_state : FenSnapshots,
                 turn : Sides]
    /\ ret = "pending"
    /\ LoopIdle

FenApply ==
    /\ call.fn = "get_fen_from_board"
    /\ ret = "pending"
    /\ ret' = get_fen_from_board(call.board_state, call.turn)
    /\ UNCHANGED <<call, loopVars, stepVars>>

FenNext == FenApply

SpecFen == FenInit /\ [][FenNext]_vars

(***************************************************************************)
(* Claims about get_fen_from_board                                         *)
(***************************************************************************)
FenDone == call.fn = "get_fen_from_board" /\ ret # "pending"

\* the parts of s between the occurrences of sep
RECURSIVE SplitOn(_, _)
SplitOn(s, sep) ==
    IF \E i \in DOMAIN s : s[i] = sep
    THEN LET i == CHOOSE i \in DOMAIN s :
                    s[i] = sep /\ \A j \in 1..(i - 1) : s[j] # sep
         IN  <<SubSeq(s, 1, i - 1)>> \o SplitOn(SubSeq(s, i + 1, Len(s)), sep)
    ELSE <<s>>

\* the ranks of the piece-placement field, in the order they are written
PlacementRanks(fen) == SplitOn(SplitOn(fen, " ")[1], "/")

\* the squares of one written rank, file a first: "" for an empty square
RECURSIVE ExpandRank(_)
ExpandRank(rank) ==
    IF rank = << >> THEN << >>
    ELSE IF IsDigitChar(Head(rank))
    THEN [i \in 1..DigitVal(Head(rank)) |-> ""] \o ExpandRank(Tail(rank))
    ELSE <<Head(rank)>> \o ExpandRank(Tail(rank))

\* the key spells a square of the board
OnBoard(k) ==
    /\ SquareOf(k)[1] \in 1..8
    /\ SquareOf(k)[2] \in 1..8

\* C26: for every snapshot that passes the king validation a position string
\* is returned whose placement has 8 ranks, each accounting for 8 squares,
\* with every digit in 1..8 and no two digits adjacent; rank 8 is written
\* first, and each piece stands on the square its key spells in either
\* encoding (the last entry written to a square being the one that stays).
C26_PlacementWellFormed ==
    (/\ FenDone
     /\ call.board_state # << >>
     /\ KingsValid(call.board_state))
    => /\ ret # None
       /\ LET ranks == PlacementRanks(ret)
          IN  /\ Len(ranks) = 8
              /\ \A r \in DOMAIN ranks :
                    /\ Len(ExpandRank(ranks[r])) = 8
                    /\ \A i \in DOMAIN ranks[r] :
                          IsDigitChar(ranks[r][i]) =>
                            /\ DigitVal(ranks[r][i]) \in 1..8
                            /\ i > 1 => ~IsDigitChar(ranks[r][i - 1])
              /\ \A i \in DOMAIN call.board_state :
                    LET k == call.board_state[i][1]
                    IN  (/\ OnBoard(k)
                         /\ \A j \in DOMAIN call.board_state :
                              j > i => SquareOf(call.board_state[j][1])
                                        # SquareOf(k))
                        => ExpandRank(ranks[9 - SquareOf(k)[2]])[SquareOf(k)[1]]
                            = PieceLetter(call.board_state[i][2])

\* a position string was built from a snapshot that holds a letter-file key
\* and digit-file keys, two of them on the same rank
C26_Witness ==
    /\ FenDone
    /\ ret # None
    /\ {<<"a", "1">>, <<"5", "1">>, <<"5", "8">>}
            \subseteq DictKeys(call.board_state)

\* the number of occurrences of c in s
Occurrences(s, c) == Cardinality({i \in DOMAIN s : s[i] = c})

\* C28: every position string returned has exactly one white king and exactly
\* one black king in its piece-placement field, whatever the snapshot.
C28_ReturnedPlacementHasBothKings ==
    (FenDone /\ ret # None) =>
        /\ Occurrences(SplitOn(ret, " ")[1], "K") = 1
        /\ Occurrences(SplitOn(ret, " ")[1], "k") = 1

(***************************************************************************)
(* C27, C29: the suboptimal band and the range of what select returns      *)
(***************************************************************************)

\* C27: with legit mode enabled, at least two candidates in a best-first list
\* and a draw r with blunderChance <= r < blunderChance + suboptimalChance,
\* select returns a candidate of rank > 0 whose deficit lies in [0.1, 0.4]
\* when one exists and the rank-0 candidate otherwise; for a draw
\* r >= blunderChance + suboptimalChance it returns the rank-0 candidate.
C27_SuboptimalBand ==
    (/\ SelectDone
     /\ call.legit_mode.enabled
     /\ Len(call.moves_with_eval) >= 2
     /\ BestFirst(call.moves_with_eval))
    => LET band == MovesInBand(call.moves_with_eval, SuboptimalLo,
                               SuboptimalHi)
           bc == call.legit_mode.blunder_chance
           sc == call.legit_mode.suboptimal_chance
       IN  /\ (bc <= call.roll /\ call.roll < bc + sc) =>
                 IF band # {} THEN ret \in band
                 ELSE ret = call.moves_with_eval[1][1]
           /\ call.roll >= bc + sc => ret = call.moves_with_eval[1][1]

\* the deficit of the returned move from the first candidate
DeficitOfReturned ==
    LET i == CHOOSE i \in DOMAIN call.moves_with_eval :
                call.moves_with_eval[i][1] = ret
    IN  call.moves_with_eval[1][2] - call.moves_with_eval[i][2]

\* C29: select returns one of the supplied candidates, and None only for the
\* empty list; the returned candidate is never worse than the first by more
\* than 1.5 pawns; on a best-first list, a returned candidate other than the
\* first has a deficit in [0.1, 0.4] or in [0.5, 1.5].
C29_ReturnedWithinBands ==
    SelectDone =>
        /\ call.moves_with_eval = << >> <=> ret = None
        /\ call.moves_with_eval # << >> =>
            /\ \E i \in DOMAIN call.moves_with_eval :
                    call.moves_with_eval[i][1] = ret
            /\ DeficitOfReturned <= BlunderHi
            /\ (/\ BestFirst(call.moves_with_eval)
                /\ ret # call.moves_with_eval[1][1])
               => \/ (SuboptimalLo <= DeficitOfReturned
                      /\ DeficitOfReturned <= SuboptimalHi)
                  \/ (BlunderLo <= DeficitOfReturned
                      /\ DeficitOfReturned <= BlunderHi)

\* a candidate of the blunder band was returned from a list that also holds a
\* candidate worse than the first by more than 1.5 pawns
C29_Witness ==
    /\ SelectDone
    /\ call.moves_with_eval # << >>
    /\ ret # call.moves_with_eval[1][1]
    /\ BestFirst(call.moves_with_eval)
    /\ DeficitOfReturned >= BlunderLo
    /\ \E i \in DOMAIN call.moves_with_eval :
            call.moves_with_eval[1][2] - call.moves_with_eval[i][2] > BlunderHi

====
